---- MODULE Spec2Model ----
(***************************************************************************)
(* State-machine model of the task manager backend (tasks/views.py,        *)
(* tasks/models.py, tasks/serializers.py, tasks/app_urls.py).              *)
(*                                                                         *)
(* State: the two relational tables (Task, WeatherLog), the id sequence of *)
(* the Task table, the wall clock, and -- as observation variables -- the  *)
(* last request, the response it got and the number of outbound calls to   *)
(* the weather API it made.  Every HTTP handler is one action.             *)
(***************************************************************************)
EXTENDS Integers, Sequences, FiniteSets, TLC

VARIABLES
    tasks,      \* Task table: id -> row
    nextId,     \* next value of the Task id sequence
    logs,       \* WeatherLog table: sequence of rows, row id = position
    now,        \* wall clock (timezone.now())
    req,        \* last request, with the environment's answers it met
    resp,       \* response to the last request
    calls,      \* outbound weather-API calls made by the last request
    storedTrue, \* weather responses so far with debug_info.stored_in_db = TRUE
    deleted,    \* ids of the tasks deleted so far
    lookups,    \* weather requests in flight, one slot per client
    edits       \* task update requests in flight, one slot per client

vars == <<tasks, nextId, logs, now, req, resp, calls, storedTrue, deleted,
          lookups, edits>>

(***************************************************************************)
(* Bounds of the model.                                                    *)
(***************************************************************************)
MaxTasks == 2       \* task ids ever assigned (task service)
MaxStatTasks == 6   \* task ids ever assigned (analytics)
MaxLogs == 2        \* WeatherLog rows ever inserted
MaxClients == 2     \* requests of one kind in flight at the same time
MaxSharedTasks == 1 \* task ids ever assigned (concurrent updates)

(***************************************************************************)
(* Program constants.                                                      *)
(***************************************************************************)
ExcerptLen == 200   \* response.text[:200]
RecentLimit == 5    \* order_by('-created_at')[:5]

PRIORITY_CHOICES == {"low", "medium", "high"}
STATUS_CHOICES == {"pending", "in_progress", "completed"}

Null == [null |-> TRUE]

Min(a, b) == IF a < b THEN a ELSE b

\* The server holds no request: the last response has been returned.
NoRequest == [op |-> "none"]
NoResponse == [status |-> 0]
Idle == req = NoRequest

\* The response leaves the server and the request is over.
RequestDone ==
    /\ ~Idle
    /\ req' = NoRequest
    /\ resp' = NoResponse
    /\ calls' = 0
    /\ UNCHANGED <<tasks, nextId, logs, now, storedTrue, deleted, lookups, edits>>

(***************************************************************************)
(* Weather service.                                                        *)
(***************************************************************************)

\* The text of an upstream response, as a sequence of characters.
Text(n) == [i \in 1..n |-> "x"]

\* The whole text, whatever its length.
NoSlice(text, n) == text

\* response.text[:200]
Slice(text, n) == SubSeq(text, 1, Min(n, Len(text)))

\* How config('WEATHER_API_KEY') can answer: it raises when the variable is
\* not set anywhere, and returns the (possibly empty) string otherwise.
KeyConfigs == {"unset", "empty", "set"}

Cities == {"mumbai"}

\* The four fields of an upstream body the handler requires.
Payloads ==
    { [name |-> "Mumbai", temp |-> 30, description |-> "haze", humidity |-> 70],
      [name |-> "Pune", temp |-> 25, description |-> "clear sky", humidity |-> 40] }

\* A 200 body: not a JSON object at all; or an object in which the required
\* keys are all present or not, "wind" is absent, an object or the JSON null,
\* and "sys" is an object or the JSON null.
Bodies ==
    { [json |-> FALSE] } \cup
    { [json |-> TRUE, complete |-> c, wind |-> w, sys |-> s, data |-> p] :
        c \in BOOLEAN, w \in {"absent", "object", "null"},
        s \in {"object", "null"}, p \in Payloads }

NoBody == [json |-> FALSE]

UpstreamStatuses == {200, 401, 404, 429, 500}

TextLens == {0, 1, ExcerptLen, ExcerptLen + 1}

\* What requests.get(url, timeout=10) can do.
Upstreams ==
    { [kind |-> k] : k \in {"timeout", "connection", "exception"} } \cup
    { [kind |-> "http", status |-> 200, text |-> Text(1), body |-> b] :
        b \in Bodies } \cup
    { [kind |-> "http", status |-> s, text |-> Text(n), body |-> NoBody] :
        s \in UpstreamStatuses \ {200}, n \in TextLens }

Message(m) == [kind |-> "message", msg |-> m]
Excerpt(t) == [kind |-> "text", text |-> t]

ErrorResponse(code, err, dbg) ==
    [status |-> code, error |-> err, debug_info |-> dbg]

\* data.get('wind', {}).get('speed') and data.get('sys', {}).get('country')
\* raise AttributeError when the value under the key is not an object.
OptionalFieldsRaise(body) == body.wind = "null" \/ body.sys = "null"

WindSpeed(body) == IF body.wind = "object" THEN "speed" ELSE "null"

\* The payload both response_data literals share.
WeatherPayload(body, loggedAt, dbg) ==
    [status |-> 200,
     city |-> body.data.name,
     temperature |-> body.data.temp,
     description |-> body.data.description,
     humidity |-> body.data.humidity,
     logged_at |-> loggedAt,
     wind_speed |-> WindSpeed(body),
     debug_info |-> dbg]

NewLog(body, t) ==
    [city |-> body.data.name,
     temperature |-> body.data.temp,
     description |-> body.data.description,
     humidity |-> body.data.humidity,
     timestamp |-> t]

UnexpectedError(text) ==
    ErrorResponse(500, "Unexpected error occurred", Message(text))

\* The except-branch of the inner try (lines 121-143): the response is built
\* again from data, so a KeyError or AttributeError raised here leaves the
\* inner try and reaches the outer "except Exception".
Fallback(body, t, dbError) ==
    IF ~body.complete THEN UnexpectedError("KeyError")
    ELSE IF OptionalFieldsRaise(body) THEN UnexpectedError("AttributeError")
    ELSE WeatherPayload(body, t,
            [api_status |-> "success", stored_in_db |-> FALSE,
             db_error |-> dbError, timestamp_iso |-> t])

\* The 200 branch (lines 87-146).  Returns the table and the response.
StoreAndRespond(body, dbFail, table, t) ==
    IF ~body.json THEN
        [logs |-> table, resp |-> UnexpectedError("JSONDecodeError")]
    ELSE IF ~body.complete THEN
        [logs |-> table, resp |-> Fallback(body, t, "KeyError")]
    ELSE IF dbFail THEN
        [logs |-> table, resp |-> Fallback(body, t, "DatabaseError")]
    ELSE IF OptionalFieldsRaise(body) THEN
        \* the row is in the table when building response_data raises
        [logs |-> Append(table, NewLog(body, t)),
         resp |-> Fallback(body, t, "AttributeError")]
    ELSE
        [logs |-> Append(table, NewLog(body, t)),
         resp |-> WeatherPayload(body, t,
                    [api_status |-> "success", stored_in_db |-> TRUE,
                     timestamp_iso |-> t])]

Suggestions == <<"Mumbai", "Delhi", "Bangalore", "Chennai", "Kolkata", "Pune">>

\* A client that tries once more after a timeout or a connection failure.
AttemptsWithRetry(up) ==
    IF up.kind \in {"timeout", "connection"} THEN 2 ELSE 1

\* requests.get(url, timeout=10) is called once, whatever it answers.
Attempts(up) == 1

\* The branches on response.status_code and the three except clauses.
CallUpstream(up, dbFail, table, t) ==
    IF up.kind = "timeout" THEN
        [logs |-> table, calls |-> Attempts(up),
         resp |-> ErrorResponse(504, "Weather API request timed out",
                    Message("The weather service is taking too long to respond"))]
    ELSE IF up.kind = "connection" THEN
        [logs |-> table, calls |-> Attempts(up),
         resp |-> ErrorResponse(503, "Cannot connect to weather API",
                    Message("Check your internet connection"))]
    ELSE IF up.kind = "exception" THEN
        [logs |-> table, calls |-> Attempts(up), resp |-> UnexpectedError("Exception")]
    ELSE IF up.status = 200 THEN
        LET r == StoreAndRespond(up.body, dbFail, table, t)
        IN  [logs |-> r.logs, calls |-> Attempts(up), resp |-> r.resp]
    ELSE IF up.status = 401 THEN
        [logs |-> table, calls |-> Attempts(up),
         resp |-> ErrorResponse(401, "Invalid weather API key",
                    Message("Check your WEATHER_API_KEY in .env file"))]
    ELSE IF up.status = 404 THEN
        [logs |-> table, calls |-> Attempts(up),
         resp |-> [status |-> 404, error |-> "City not found",
                   debug_info |-> Message("Try using the exact city name"),
                   suggestions |-> Suggestions]]
    ELSE
        [logs |-> table, calls |-> Attempts(up),
         resp |-> ErrorResponse(up.status, "Weather API returned status",
                    IF Len(up.text) > 0
                    THEN Excerpt(Slice(up.text, ExcerptLen))
                    ELSE Message("No response content"))]

\* get_weather(request, city)
WeatherResult(key, up, dbFail, table, t) ==
    IF key = "unset" THEN
        [logs |-> table, calls |-> 0,
         resp |-> ErrorResponse(500, "Weather API key not configured",
                    Message("UndefinedValueError"))]
    ELSE IF key = "empty" THEN
        [logs |-> table, calls |-> 0,
         resp |-> ErrorResponse(500, "Weather API key not configured",
                    Message("WEATHER_API_KEY environment variable is empty or not set"))]
    ELSE CallUpstream(up, dbFail, table, t)

GetWeather ==
    /\ Idle
    /\ Len(logs) < MaxLogs
    /\ \E city \in Cities, key \in KeyConfigs, up \in Upstreams,
          dbFail \in BOOLEAN :
        LET r == WeatherResult(key, up, dbFail, logs, now)
        IN  /\ req' = [op |-> "weather", city |-> city, key |-> key,
                       upstream |-> up, dbFail |-> dbFail]
            /\ resp' = r.resp
            /\ calls' = r.calls
            /\ logs' = r.logs
            /\ now' = IF Len(r.logs) > Len(logs) THEN now + 1 ELSE now
            /\ storedTrue' =
                 IF r.resp.status = 200 /\ r.resp.debug_info.stored_in_db
                 THEN storedTrue + 1 ELSE storedTrue
    /\ UNCHANGED <<tasks, nextId, deleted, lookups, edits>>

(***************************************************************************)
(* Task service: TaskViewSet (a ModelViewSet over TaskSerializer).         *)
(***************************************************************************)

Absent == "<absent>"    \* a field the request body does not carry
NoParam == "<none>"     \* a query parameter the URL does not carry

Titles == {"a", "b"}
Users == {"u1"}

\* Request bodies: title, priority and status are absent or carry a value,
\* and the values of priority and status include one outside the
\* enumeration; the owner is always named.
TaskData ==
    [title : Titles \cup {Absent},
     priority : PRIORITY_CHOICES \cup {Absent, "urgent"},
     status : STATUS_CHOICES \cup {Absent, "done"},
     user : Users]

\* Bodies that carry every writable field with a valid value.
ValidTaskData ==
    [title : Titles, priority : PRIORITY_CHOICES, status : STATUS_CHOICES,
     user : Users]

StatusParams == {NoParam, "", "completed"}
PriorityParams == {NoParam, "high"}
QueryParams == [status : StatusParams, priority : PriorityParams]
NoQuery == [status |-> NoParam, priority |-> NoParam]

\* "if status_filter:" is false for a missing parameter and for an empty one.
Given(param) == param # NoParam /\ param # ""

\* A priority filter that starts again from all rows instead of narrowing
\* the rows the status filter kept.
PriorityFilterReplaces(table, q) ==
    IF Given(q.priority)
    THEN { i \in DOMAIN table : table[i].priority = q.priority }
    ELSE { i \in DOMAIN table : Given(q.status) => table[i].status = q.status }

\* A queryset that the query parameters do not narrow.
IgnoresFilters(table, q) == DOMAIN table

\* TaskViewSet.get_queryset: the ids of the rows the query parameters keep.
GetQueryset(table, q) ==
    { i \in DOMAIN table :
        /\ (Given(q.status) => table[i].status = q.status)
        /\ (Given(q.priority) => table[i].priority = q.priority) }

\* Meta.ordering = ['-created_at'] and order_by('-created_at'): the ids in
\* descending created_at order.
RECURSIVE OrderDesc(_, _)
OrderDesc(table, ids) ==
    IF ids = {} THEN <<>>
    ELSE LET m == CHOOSE i \in ids :
                    \A j \in ids : table[j].created_at <= table[i].created_at
         IN  <<m>> \o OrderDesc(table, ids \ {m})

\* TaskSerializer's representation of a row.
Serialize(table, i) ==
    [id |-> i,
     title |-> table[i].title,
     priority |-> table[i].priority,
     status |-> table[i].status,
     created_at |-> table[i].created_at,
     user |-> table[i].user]

\* Validation that checks the required fields only.
ValidateRequiredOnly(data, partial) ==
    { f \in {"title", "user"} : ~partial /\ data[f] = Absent }

\* TaskSerializer.is_valid: the fields in error.  title and user are
\* required unless the update is partial; priority and status, when given,
\* must be one of the model's choices.
Validate(data, partial) ==
    { f \in {"title", "user"} : ~partial /\ data[f] = Absent } \cup
    { f \in {"priority"} :
        data.priority # Absent /\ data.priority \notin PRIORITY_CHOICES } \cup
    { f \in {"status"} :
        data.status # Absent /\ data.status \notin STATUS_CHOICES }

\* The row a valid create stores: model defaults fill the absent fields.
NewTask(data, t) ==
    [title |-> data.title,
     priority |-> IF data.priority = Absent THEN "medium" ELSE data.priority,
     status |-> IF data.status = Absent THEN "pending" ELSE data.status,
     created_at |-> t,
     user |-> data.user]

\* The row a valid update stores: the given fields replace the stored ones.
UpdatedTask(row, data) ==
    [title |-> IF data.title = Absent THEN row.title ELSE data.title,
     priority |-> IF data.priority = Absent THEN row.priority ELSE data.priority,
     status |-> IF data.status = Absent THEN row.status ELSE data.status,
     created_at |-> row.created_at,
     user |-> IF data.user = Absent THEN row.user ELSE data.user]

Put(table, i, row) ==
    [j \in DOMAIN table \cup {i} |-> IF j = i THEN row ELSE table[j]]

Remove(table, i) == [j \in DOMAIN table \ {i} |-> table[j]]

Max(S) == CHOOSE x \in S : \A y \in S : y <= x

\* An id sequence that hands out the highest id in the table plus one.
HighestPlusOne(table, next) ==
    IF DOMAIN table = {} THEN 1 ELSE Max(DOMAIN table) + 1

\* The id of a new row: the next value of the table's id sequence
\* (AutoField primary key), whatever rows have been deleted.
NewId(table, next) == next

NotFound == [status |-> 404, detail |-> "Not found."]
BadRequest(errors) == [status |-> 400, errors |-> errors]

\* POST /api/tasks/
CreateTask(D, N) ==
    /\ Idle
    /\ \E data \in D :
        /\ req' = [op |-> "create", data |-> data]
        /\ calls' = 0
        /\ UNCHANGED <<logs, storedTrue, deleted, lookups, edits>>
        /\ IF Validate(data, FALSE) # {}
           THEN /\ resp' = BadRequest(Validate(data, FALSE))
                /\ UNCHANGED <<tasks, nextId, now>>
           ELSE /\ nextId <= N
                /\ tasks' = Put(tasks, NewId(tasks, nextId),
                                 NewTask(data, now))
                /\ nextId' = nextId + 1
                /\ now' = now + 1
                /\ resp' = [status |-> 201,
                            task |-> Serialize(tasks', NewId(tasks, nextId))]

\* GET /api/tasks/
ListTasks(Q) ==
    /\ Idle
    /\ \E q \in Q :
        /\ req' = [op |-> "list", query |-> q]
        /\ resp' = [status |-> 200,
                    results |->
                      LET order == OrderDesc(tasks, GetQueryset(tasks, q))
                      IN  [k \in 1..Len(order) |-> Serialize(tasks, order[k])]]
        /\ calls' = 0
        /\ UNCHANGED <<tasks, nextId, logs, now, storedTrue, deleted, lookups, edits>>

\* GET /api/tasks/{id}/
RetrieveTask(Q, N) ==
    /\ Idle
    /\ \E i \in 1..N, q \in Q :
        /\ req' = [op |-> "retrieve", id |-> i, query |-> q]
        /\ resp' = IF i \in GetQueryset(tasks, q)
                   THEN [status |-> 200, task |-> Serialize(tasks, i)]
                   ELSE NotFound
        /\ calls' = 0
        /\ UNCHANGED <<tasks, nextId, logs, now, storedTrue, deleted, lookups, edits>>

\* PUT (partial = FALSE) and PATCH (partial = TRUE) /api/tasks/{id}/
UpdateTask(Q, D, N) ==
    /\ Idle
    /\ \E i \in 1..N, q \in Q, data \in D, partial \in BOOLEAN :
        /\ req' = [op |-> "update", id |-> i, query |-> q, data |-> data,
                   partial |-> partial]
        /\ calls' = 0
        /\ UNCHANGED <<nextId, logs, now, storedTrue, deleted, lookups, edits>>
        /\ IF i \notin GetQueryset(tasks, q)
           THEN resp' = NotFound /\ UNCHANGED tasks
           ELSE IF Validate(data, partial) # {}
           THEN resp' = BadRequest(Validate(data, partial)) /\ UNCHANGED tasks
           ELSE /\ tasks' = Put(tasks, i, UpdatedTask(tasks[i], data))
                /\ resp' = [status |-> 200, task |-> Serialize(tasks', i)]

\* DELETE /api/tasks/{id}/
DestroyTask(Q, N) ==
    /\ Idle
    /\ \E i \in 1..N, q \in Q :
        /\ req' = [op |-> "destroy", id |-> i, query |-> q]
        /\ calls' = 0
        /\ UNCHANGED <<nextId, logs, now, storedTrue, lookups, edits>>
        /\ IF i \notin GetQueryset(tasks, q)
           THEN resp' = NotFound /\ UNCHANGED <<tasks, deleted>>
           ELSE /\ tasks' = Remove(tasks, i)
                /\ deleted' = deleted \cup {i}
                /\ resp' = [status |-> 204]

(***************************************************************************)
(* Analytics service.                                                      *)
(***************************************************************************)

\* Task.objects.filter(status=value).count()
CountStatus(table, value) ==
    Cardinality({ i \in DOMAIN table : table[i].status = value })

\* The rate cut off after the second decimal instead of rounded.
TruncatedRate(num, den) == IF den > 0 THEN (num * 10000) \div den ELSE 0

\* round((completed / total * 100), 2) if total > 0 else 0, in hundredths of
\* a percent: the nearest hundredth, the even one on a tie.
CompletionRate(num, den) ==
    IF den > 0
    THEN LET q == (num * 10000) \div den
             r == (num * 10000) % den
         IN  IF 2 * r < den THEN q
             ELSE IF 2 * r > den THEN q + 1
             ELSE IF q % 2 = 0 THEN q ELSE q + 1
    ELSE 0

\* Task.objects.values('priority').annotate(count=Count('priority'))
PriorityStats(table) ==
    { [priority |-> p,
       count |-> Cardinality({ i \in DOMAIN table : table[i].priority = p })] :
        p \in { table[i].priority : i \in DOMAIN table } }

\* Task.objects.order_by('-created_at')[:5], as the dictionaries of the
\* list comprehension.
RecentTasks(table) ==
    LET order == OrderDesc(table, DOMAIN table)
        n == Min(RecentLimit, Len(order))
    IN  [k \in 1..n |->
            [id |-> order[k],
             title |-> table[order[k]].title,
             status |-> table[order[k]].status,
             priority |-> table[order[k]].priority,
             created_at |-> table[order[k]].created_at]]

\* The two panels of the figure: the non-zero status counts and the
\* priority counts.
Chart(table) ==
    [pie |-> { x \in { [label |-> "Completed",
                        count |-> CountStatus(table, "completed")],
                       [label |-> "Pending",
                        count |-> CountStatus(table, "pending")],
                       [label |-> "In Progress",
                        count |-> CountStatus(table, "in_progress")] } :
                 x.count > 0 },
     bars |-> PriorityStats(table)]

\* Lines 219-269: the chart, or None without tasks or when rendering raises.
ChartImage(table, chartFail) ==
    IF Cardinality(DOMAIN table) > 0 /\ ~chartFail
    THEN Chart(table) ELSE Null

\* response_data (lines 271-286) for a given chart.
Stats(table, chart, t) ==
    LET total == Cardinality(DOMAIN table)
    IN  [status |-> 200,
         total_tasks |-> total,
         completed_tasks |-> CountStatus(table, "completed"),
         pending_tasks |-> CountStatus(table, "pending"),
         in_progress_tasks |-> CountStatus(table, "in_progress"),
         completion_rate |->
             CompletionRate(CountStatus(table, "completed"), total),
         priority_distribution |-> PriorityStats(table),
         recent_tasks |-> RecentTasks(table),
         chart_image |-> chart,
         generated_at |-> t,
         debug_info |-> [chart_generated |-> chart # Null,
                         has_tasks |-> total > 0,
                         recent_tasks_count |-> Len(RecentTasks(table))]]

StatsError(text) ==
    [status |-> 500, error |-> "Failed to generate analytics",
     debug_info |-> Message(text)]

\* A chart error that is not caught next to the chart code and reaches the
\* outer handler.
StatsAbortOnChartError(table, chartFail, t) ==
    IF chartFail /\ Cardinality(DOMAIN table) > 0
    THEN StatsError("chart error")
    ELSE Stats(table, ChartImage(table, chartFail), t)

\* The response of task_analytics when the statistics queries succeed.
StatsResponse(table, chartFail, t) ==
    Stats(table, ChartImage(table, chartFail), t)

\* GET /api/analytics/
TaskAnalytics ==
    /\ Idle
    /\ \E statsFail \in BOOLEAN, chartFail \in BOOLEAN :
        /\ req' = [op |-> "analytics", statsFail |-> statsFail,
                   chartFail |-> chartFail]
        /\ resp' = IF statsFail
                   THEN StatsError("DatabaseError")
                   ELSE StatsResponse(tasks, chartFail, now)
        /\ calls' = 0
        /\ UNCHANGED <<tasks, nextId, logs, now, storedTrue, deleted, lookups, edits>>

(***************************************************************************)
(* Dashboard, test endpoint and configuration debug endpoint.              *)
(***************************************************************************)

Endpoints ==
    {"/api/tasks/", "/api/weather/Mumbai/", "/api/analytics/", "/api/test/",
     "/api/debug-config/"}

\* What can go wrong in the try block of dashboard: nothing, a query that
\* raises, or a template that cannot be rendered.
DashboardFailures == {"none", "DatabaseError", "TemplateDoesNotExist"}

\* The static page of the except branch (lines 321-351): HttpResponse with
\* the default status, the text of the exception and the endpoint links.
StaticPage(text) ==
    [status |-> 200, page |-> "static", error_text |-> text,
     endpoints |-> Endpoints]

\* The rendered template with its context (lines 306-319).
RenderedPage(table) ==
    [status |-> 200, page |-> "dashboard.html",
     task_count |-> Cardinality(DOMAIN table),
     recent_tasks |-> RecentTasks(table),
     completed_tasks |-> CountStatus(table, "completed"),
     pending_tasks |-> CountStatus(table, "pending")]

\* A handler whose queries run before the try block, so that only the
\* template is guarded.
QueriesOutsideTry(table, failure) ==
    IF failure = "none" THEN RenderedPage(table)
    ELSE IF failure = "DatabaseError"
    THEN [status |-> 500, page |-> "server error", error_text |-> failure,
          endpoints |-> {}]
    ELSE StaticPage(failure)

\* dashboard(request): the try block and its except branch.
DashboardResponse(table, failure) ==
    IF failure = "none" THEN RenderedPage(table) ELSE StaticPage(failure)

\* GET /
Dashboard ==
    /\ Idle
    /\ \E failure \in DashboardFailures :
        /\ req' = [op |-> "dashboard", failure |-> failure]
        /\ resp' = DashboardResponse(tasks, failure)
        /\ calls' = 0
        /\ UNCHANGED <<tasks, nextId, logs, now, storedTrue, deleted, lookups, edits>>

\* GET /api/test/
TestEndpoint ==
    /\ Idle
    /\ req' = [op |-> "test"]
    /\ resp' = [status |-> 200, message |-> "URL routing is working!",
                timestamp |-> now]
    /\ calls' = 0
    /\ UNCHANGED <<tasks, nextId, logs, now, storedTrue, deleted, lookups, edits>>

\* order_by('-timestamp')[:3]: rows are appended in timestamp order, so the
\* most recent three are the last three, newest first.
RecentLogs(table) ==
    [k \in 1..Min(3, Len(table)) |->
        [city |-> table[Len(table) + 1 - k].city,
         temperature |-> table[Len(table) + 1 - k].temperature,
         timestamp |-> table[Len(table) + 1 - k].timestamp]]

\* GET /api/debug-config/
DebugConfig ==
    /\ Idle
    /\ \E key \in KeyConfigs, dbFail \in BOOLEAN :
        /\ req' = [op |-> "debug_config", key |-> key, dbFail |-> dbFail]
        /\ resp' = [status |-> 200,
                    weather_api_key_configured |-> key = "set",
                    database |->
                        IF dbFail THEN [status |-> "error"]
                        ELSE [status |-> "connected",
                              task_count |-> Cardinality(DOMAIN tasks),
                              weather_log_count |-> Len(logs)],
                    recent_weather_logs |->
                        IF dbFail THEN <<[error |-> "DatabaseError"]>>
                        ELSE RecentLogs(logs)]
        /\ calls' = 0
        /\ UNCHANGED <<tasks, nextId, logs, now, storedTrue, deleted, lookups, edits>>

(***************************************************************************)
(* Requests in flight at the same time.  Each worker runs the same view    *)
(* code on its own request; the tables are all they share.  A weather      *)
(* request is open while requests.get waits for the upstream; an update is *)
(* open between get_object() and serializer.save().                        *)
(***************************************************************************)

Clients == 1..MaxClients

NotInFlight == [pc |-> "idle"]

\* get_weather up to and including the call to requests.get: without a key
\* the request is answered at once.
StartLookup(K, W, F) ==
    \E c \in Clients, city \in Cities, key \in K, up \in W, dbFail \in F :
        /\ lookups[c].pc = "idle"
        /\ lookups' = [lookups EXCEPT ![c] =
              IF key = "set"
              THEN [pc |-> "called", city |-> city, upstream |-> up,
                    dbFail |-> dbFail, seen |-> Len(logs)]
              ELSE [pc |-> "done", city |-> city, upstream |-> up,
                    dbFail |-> dbFail, seen |-> Len(logs),
                    resp |-> WeatherResult(key, up, dbFail, logs, now).resp]]
        /\ UNCHANGED <<tasks, nextId, logs, now, req, resp, calls,
                       storedTrue, deleted, edits>>

\* get_weather from the answer of requests.get to the response.
FinishLookup ==
    \E c \in Clients :
        /\ lookups[c].pc = "called"
        /\ Len(logs) < MaxLogs
        /\ LET r == CallUpstream(lookups[c].upstream, lookups[c].dbFail,
                                 logs, now)
           IN  /\ logs' = r.logs
               /\ now' = IF Len(r.logs) > Len(logs) THEN now + 1 ELSE now
               /\ storedTrue' =
                    IF r.resp.status = 200 /\ r.resp.debug_info.stored_in_db
                    THEN storedTrue + 1 ELSE storedTrue
               /\ lookups' = [lookups EXCEPT ![c] =
                     [pc |-> "done", city |-> lookups[c].city,
                      upstream |-> lookups[c].upstream,
                      dbFail |-> lookups[c].dbFail,
                      seen |-> lookups[c].seen, resp |-> r.resp]]
        /\ UNCHANGED <<tasks, nextId, req, resp, calls, deleted, edits>>

\* The response of a weather request leaves the server.
LookupDone ==
    \E c \in Clients :
        /\ lookups[c].pc = "done"
        /\ lookups' = [lookups EXCEPT ![c] = NotInFlight]
        /\ UNCHANGED <<tasks, nextId, logs, now, req, resp, calls,
                       storedTrue, deleted, edits>>

\* A save that writes the request's fields onto the row as it is now.
SaveOntoCurrentRow(table, i, instance, data) ==
    IF i \in DOMAIN table THEN UpdatedTask(table[i], data)
    ELSE UpdatedTask(instance, data)

\* serializer.save(): the validated fields are set on the instance that
\* get_object() loaded, and instance.save() writes every column of that
\* instance, whatever the row holds by now.
SavedRow(table, i, instance, data) == UpdatedTask(instance, data)

\* PUT or PATCH up to the end of validation: get_object() loads the row,
\* is_valid() checks the body.
StartEdit(D, N) ==
    \E c \in Clients, i \in 1..N, data \in D, partial \in BOOLEAN :
        /\ edits[c].pc = "idle"
        /\ edits' = [edits EXCEPT ![c] =
              IF i \notin GetQueryset(tasks, NoQuery)
              THEN [pc |-> "done", resp |-> NotFound]
              ELSE IF Validate(data, partial) # {}
              THEN [pc |-> "done",
                    resp |-> BadRequest(Validate(data, partial))]
              ELSE [pc |-> "loaded", id |-> i, data |-> data,
                    partial |-> partial, instance |-> tasks[i]]]
        /\ UNCHANGED <<tasks, nextId, logs, now, req, resp, calls,
                       storedTrue, deleted, lookups>>

\* serializer.save() and the response.  Model.save() updates the row with
\* the instance's primary key and inserts it when no such row is left.
FinishEdit ==
    \E c \in Clients :
        /\ edits[c].pc = "loaded"
        /\ tasks' = Put(tasks, edits[c].id,
                        SavedRow(tasks, edits[c].id, edits[c].instance,
                                 edits[c].data))
        /\ edits' = [edits EXCEPT ![c] =
              [pc |-> "done", id |-> edits[c].id, data |-> edits[c].data,
               partial |-> edits[c].partial,
               instance |-> edits[c].instance,
               resp |-> [status |-> 200,
                         task |-> Serialize(tasks', edits[c].id)]]]
        /\ UNCHANGED <<nextId, logs, now, req, resp, calls, storedTrue,
                       deleted, lookups>>

\* The response of an update leaves the server.
EditDone ==
    \E c \in Clients :
        /\ edits[c].pc = "done"
        /\ edits' = [edits EXCEPT ![c] = NotInFlight]
        /\ UNCHANGED <<tasks, nextId, logs, now, req, resp, calls,
                       storedTrue, deleted, lookups>>

Init ==
    /\ tasks = <<>>
    /\ nextId = 1
    /\ logs = <<>>
    /\ now = 0
    /\ req = NoRequest
    /\ resp = NoResponse
    /\ calls = 0
    /\ storedTrue = 0
    /\ deleted = {}
    /\ lookups = [c \in Clients |-> NotInFlight]
    /\ edits = [c \in Clients |-> NotInFlight]

NextWeather == GetWeather \/ RequestDone

SpecWeather == Init /\ [][NextWeather]_vars

\* The task service alone, with every request body.
NextTasks ==
    \/ CreateTask(TaskData, MaxTasks)
    \/ ListTasks(QueryParams)
    \/ RetrieveTask({NoQuery}, MaxTasks)
    \/ UpdateTask({NoQuery}, TaskData, MaxTasks)
    \/ DestroyTask({NoQuery}, MaxTasks)
    \/ RequestDone

SpecTasks == Init /\ [][NextTasks]_vars

\* Bodies for the analytics runs: four status/priority pairs.
StatsTaskData ==
    { [title |-> "a", priority |-> "high", status |-> "completed", user |-> "u1"],
      [title |-> "a", priority |-> "low", status |-> "completed", user |-> "u1"],
      [title |-> "b", priority |-> "low", status |-> "pending", user |-> "u1"],
      [title |-> "b", priority |-> "medium", status |-> "in_progress",
       user |-> "u1"] }

\* Analytics over the tables that creates and deletes build.
NextStats ==
    \/ CreateTask(StatsTaskData, MaxStatTasks)
    \/ DestroyTask({NoQuery}, MaxStatTasks)
    \/ TaskAnalytics
    \/ RequestDone

SpecStats == Init /\ [][NextStats]_vars

\* The dashboard over the tables that creates and deletes build.
NextDashboard ==
    \/ CreateTask(StatsTaskData, MaxStatTasks)
    \/ DestroyTask({NoQuery}, MaxStatTasks)
    \/ Dashboard
    \/ RequestDone

SpecDashboard == Init /\ [][NextDashboard]_vars

\* Query strings for the operations on one task: each parameter missing,
\* empty, or naming a choice.
FilterParams ==
    [status : {NoParam, "", "completed", "pending"},
     priority : {NoParam, "", "high"}]

\* Tasks for the filtered operations: two status/priority pairs.
FilterTaskData ==
    { [title |-> "a", priority |-> "high", status |-> "completed",
       user |-> "u1"],
      [title |-> "a", priority |-> "low", status |-> "pending", user |-> "u1"] }

\* Update bodies for the filtered operations: a full body and a body with
\* the status only.
FilterEditData ==
    { [title |-> "a", priority |-> "low", status |-> "pending", user |-> "u1"],
      [title |-> Absent, priority |-> Absent, status |-> "completed",
       user |-> Absent] }

\* The operations on one task, with query strings.
NextFilter ==
    \/ CreateTask(FilterTaskData, MaxTasks)
    \/ RetrieveTask(FilterParams, MaxTasks)
    \/ UpdateTask(FilterParams, FilterEditData, MaxTasks)
    \/ DestroyTask(FilterParams, MaxTasks)
    \/ RequestDone

SpecFilter == Init /\ [][NextFilter]_vars

\* The task that the concurrent updates work on.
SharedTaskData ==
    { [title |-> "a", priority |-> "low", status |-> "pending", user |-> "u1"] }

\* Two bodies that change one field each: valid for PATCH, not for PUT.
EditData ==
    { [title |-> Absent, priority |-> Absent, status |-> "completed",
       user |-> Absent],
      [title |-> Absent, priority |-> "high", status |-> Absent,
       user |-> Absent] }

\* The answers of the upstream in the concurrent runs: a timeout, and a
\* complete 200 body for the city.
SharedUpstreams ==
    { [kind |-> "timeout"],
      [kind |-> "http", status |-> 200, text |-> Text(1),
       body |-> [json |-> TRUE, complete |-> TRUE, wind |-> "object",
                 sys |-> "object",
                 data |-> [name |-> "Mumbai", temp |-> 30,
                           description |-> "haze", humidity |-> 70]]] }

\* Weather lookups and task updates in flight side by side.
NextConcurrent ==
    \/ CreateTask(SharedTaskData, MaxSharedTasks)
    \/ RequestDone
    \/ StartLookup({"set"}, SharedUpstreams, {FALSE})
    \/ FinishLookup
    \/ LookupDone
    \/ StartEdit(EditData, MaxSharedTasks)
    \/ FinishEdit
    \/ EditDone

SpecConcurrent == Init /\ [][NextConcurrent]_vars

\* Every endpoint of app_urls.py.
Next ==
    \/ CreateTask(ValidTaskData, MaxTasks)
    \/ ListTasks({NoQuery})
    \/ RetrieveTask({NoQuery}, MaxTasks)
    \/ UpdateTask({NoQuery}, ValidTaskData, MaxTasks)
    \/ DestroyTask({NoQuery}, MaxTasks)
    \/ GetWeather
    \/ TaskAnalytics
    \/ Dashboard
    \/ TestEndpoint
    \/ DebugConfig
    \/ RequestDone

Spec == Init /\ [][Next]_vars

(***************************************************************************)
(* Properties of the weather service.                                      *)
(***************************************************************************)

\* The last request was a weather lookup that passed the key check.
WeatherWithKey(r) == r.op = "weather" /\ r.key = "set"

\* ... whose external call answered 200 with a body carrying the required
\* fields.
Fetched(r) ==
    /\ WeatherWithKey(r)
    /\ r.upstream.kind = "http"
    /\ r.upstream.status = 200
    /\ r.upstream.body.json
    /\ r.upstream.body.complete

\* The response carries the four fetched fields of the upstream body.
CarriesFetched(r, rsp) ==
    /\ rsp.status = 200
    /\ rsp.city = r.upstream.body.data.name
    /\ rsp.temperature = r.upstream.body.data.temp
    /\ rsp.description = r.upstream.body.data.description
    /\ rsp.humidity = r.upstream.body.data.humidity

\* The table gained exactly one row, with the fetched values.
OneRowAdded(r, before, after) ==
    /\ Len(after) = Len(before) + 1
    /\ SubSeq(after, 1, Len(before)) = before
    /\ after[Len(after)].city = r.upstream.body.data.name
    /\ after[Len(after)].temperature = r.upstream.body.data.temp
    /\ after[Len(after)].description = r.upstream.body.data.description
    /\ after[Len(after)].humidity = r.upstream.body.data.humidity

\* C1: a weather request with a configured key whose external call returns
\* 200 and whose WeatherLog insert succeeds answers with a success carrying
\* the fetched city, temperature, description and humidity and
\* debug_info.stored_in_db = TRUE, and the table gains exactly one row with
\* those values.  (Stated over the step that handles the request.)
C1_StoredSuccess ==
    [][ (Fetched(req') /\ ~req'.dbFail)
            => /\ CarriesFetched(req', resp')
               /\ resp'.debug_info.stored_in_db
               /\ OneRowAdded(req', logs, logs') ]_vars

\* C2: the WeatherLog table is an append-only audit trail.  The number of
\* rows equals the number of weather responses with stored_in_db = TRUE; no
\* step of any endpoint changes or removes a row; and a weather request that
\* ends in an error response adds no row.
C2_AuditTrail ==
    /\ [](Len(logs) = storedTrue)
    /\ [][ /\ Len(logs') >= Len(logs)
           /\ SubSeq(logs', 1, Len(logs)) = logs
           /\ (req'.op # "weather" => logs' = logs)
           /\ (req'.op = "weather" /\ resp'.status # 200 => logs' = logs) ]_vars

\* C3: when the external call returns 200 and persisting the row fails, the
\* request still succeeds: the response carries the fetched fields, a
\* logged_at taken from the current time, stored_in_db = FALSE and the
\* failure text in db_error, and the table is unchanged.
C3_PersistFailureTolerated ==
    [][ (Fetched(req') /\ req'.dbFail)
            => /\ CarriesFetched(req', resp')
               /\ resp'.logged_at = now
               /\ resp'.debug_info.stored_in_db = FALSE
               /\ resp'.debug_info.db_error = "DatabaseError"
               /\ logs' = logs ]_vars

\* C4: a weather request makes no external call when the API key is unset
\* or empty, and then answers 500 with an error body; otherwise it makes
\* exactly one call, also when that call times out, fails or answers
\* non-200.
C4_CallCount ==
    req.op = "weather" =>
        /\ req.key \in {"unset", "empty"} =>
             /\ calls = 0
             /\ resp.status = 500
             /\ "error" \in DOMAIN resp
        /\ req.key = "set" => calls = 1

C4_Witness ==
    /\ WeatherWithKey(req)
    /\ req.upstream.kind = "timeout"
    /\ calls = 1
    /\ resp.status = 504

IsPrefix(s, t) == Len(s) <= Len(t) /\ s = SubSeq(t, 1, Len(s))

\* C5: the status of the response to a failed external call is fixed by the
\* failure: 401 for 401; 404 with a non-empty suggestions list for 404; s
\* with at most 200 characters of the upstream text for any other non-200
\* status s; 504 for a timeout; 503 for a connection failure; 500 for any
\* other exception.  Each of these bodies has an error and a debug_info
\* field.
C5_StatusByOutcome ==
    WeatherWithKey(req) =>
        LET up == req.upstream
        IN  /\ up.kind = "timeout" => resp.status = 504
            /\ up.kind = "connection" => resp.status = 503
            /\ up.kind = "exception" => resp.status = 500
            /\ up.kind = "http" /\ up.status = 401 => resp.status = 401
            /\ up.kind = "http" /\ up.status = 404 =>
                 /\ resp.status = 404
                 /\ "suggestions" \in DOMAIN resp
                 /\ Len(resp.suggestions) > 0
            /\ up.kind = "http" /\ up.status \notin {200, 401, 404} =>
                 /\ resp.status = up.status
                 /\ Len(up.text) > 0 =>
                      /\ resp.debug_info.kind = "text"
                      /\ Len(resp.debug_info.text) <= ExcerptLen
                      /\ IsPrefix(resp.debug_info.text, up.text)
            /\ up.kind = "http" /\ up.status = 200 /\ resp.status # 200 =>
                 resp.status = 500
            /\ (up.kind # "http" \/ up.status # 200 \/ resp.status # 200) =>
                 {"error", "debug_info"} \subseteq DOMAIN resp

C5_Witness ==
    /\ WeatherWithKey(req)
    /\ req.upstream.kind = "http"
    /\ req.upstream.status = 429
    /\ Len(req.upstream.text) = ExcerptLen + 1
    /\ resp.status = 429
    /\ Len(resp.debug_info.text) = ExcerptLen

(***************************************************************************)
(* Properties of the task service.                                         *)
(***************************************************************************)

\* Every stored task has its priority and status inside the enumerations.
StoredChoicesValid ==
    \A i \in DOMAIN tasks :
        /\ tasks[i].priority \in PRIORITY_CHOICES
        /\ tasks[i].status \in STATUS_CHOICES

\* The body carries a priority or a status outside its enumeration.
InvalidChoice(data) ==
    \/ data.priority \notin PRIORITY_CHOICES \cup {Absent}
    \/ data.status \notin STATUS_CHOICES \cup {Absent}

\* The fields the body carries are the fields of the row.
SameAsSubmitted(data, row) ==
    /\ data.title # Absent => row.title = data.title
    /\ data.priority # Absent => row.priority = data.priority
    /\ data.status # Absent => row.status = data.status
    /\ data.user # Absent => row.user = data.user

\* The representation is the row, field by field.
SameAsStored(rep, row) ==
    /\ rep.title = row.title
    /\ rep.priority = row.priority
    /\ rep.status = row.status
    /\ rep.user = row.user
    /\ rep.created_at = row.created_at

Matches(row, q) ==
    /\ q.status \notin {NoParam, ""} => row.status = q.status
    /\ q.priority \notin {NoParam, ""} => row.priority = q.priority

\* C7: the list operation returns exactly the stored tasks whose status
\* equals the status parameter (when one is given) and whose priority equals
\* the priority parameter (when one is given), each once, in descending
\* created_at order, and does not modify the table.
C7_ListFiltered ==
    [][ req'.op = "list" =>
          /\ tasks' = tasks
          /\ resp'.status = 200
          /\ LET r == resp'.results
                 want == { i \in DOMAIN tasks : Matches(tasks[i], req'.query) }
             IN  /\ { r[k].id : k \in 1..Len(r) } = want
                 /\ Len(r) = Cardinality(want)
                 /\ \A k \in 1..Len(r) : SameAsStored(r[k], tasks[r[k].id])
                 /\ \A k \in 1..(Len(r) - 1) :
                        r[k].created_at >= r[k + 1].created_at ]_vars

C7_Witness ==
    /\ req.op = "list"
    /\ req.query.status = "completed"
    /\ req.query.priority = "high"
    /\ Len(resp.results) = 1
    /\ Cardinality(DOMAIN tasks) = 2

\* C8: once a task id has been deleted it is never bound to a task again:
\* every later retrieve and every later delete of it answers 404 and
\* changes nothing; a successful delete removes that task alone.
C8_DeletedStaysDeleted ==
    [][ /\ \A i \in deleted' : i \notin DOMAIN tasks'
        /\ deleted \subseteq deleted'
        /\ (req'.op \in {"retrieve", "destroy"} /\ req'.id \in deleted) =>
             /\ resp'.status = 404
             /\ tasks' = tasks
        /\ (req'.op = "destroy" /\ resp'.status = 204) =>
             /\ req'.id \in DOMAIN tasks
             /\ DOMAIN tasks' = DOMAIN tasks \ {req'.id}
             /\ \A j \in DOMAIN tasks' : tasks'[j] = tasks[j] ]_vars

C8_Witness ==
    /\ req.op = "destroy"
    /\ req.id \in deleted
    /\ resp.status = 404
    /\ DOMAIN tasks # {}
    /\ \A j \in DOMAIN tasks : j > req.id

(***************************************************************************)
(* Properties of the analytics service.                                    *)
(***************************************************************************)

Abs(x) == IF x < 0 THEN -x ELSE x

\* The last request was an analytics request whose queries succeeded.
StatsAnswered == req.op = "analytics" /\ ~req.statsFail

\* C9: task_analytics returns completion_rate 0 and no chart when there are
\* no tasks, and with N > 0 tasks, C of them completed, the completion rate
\* C/N*100 rounded to two decimals (here in hundredths: the integer nearest
\* to 10000*C/N); the four counts are the counts of the stored tasks.
C9_CompletionRate ==
    StatsAnswered =>
        LET N == Cardinality(DOMAIN tasks)
            C == Cardinality({ i \in DOMAIN tasks : tasks[i].status = "completed" })
            P == Cardinality({ i \in DOMAIN tasks : tasks[i].status = "pending" })
            G == Cardinality({ i \in DOMAIN tasks : tasks[i].status = "in_progress" })
        IN  /\ resp.status = 200
            /\ resp.total_tasks = N
            /\ resp.completed_tasks = C
            /\ resp.pending_tasks = P
            /\ resp.in_progress_tasks = G
            /\ N = 0 => resp.completion_rate = 0 /\ resp.chart_image = Null
            /\ N > 0 => 2 * Abs(resp.completion_rate * N - 10000 * C) <= N

C9_Witness ==
    /\ StatsAnswered
    /\ resp.total_tasks = 3
    /\ resp.completed_tasks = 2
    /\ resp.completion_rate = 6667

\* C10: a chart rendering failure does not abort the statistics response
\* and does not change the statistics: the response has the status and the
\* total, per-status counts, completion rate, priority distribution and
\* recent tasks of the response with a working renderer over the same
\* table, and chart_image is null.
C10_ChartFailureIsolated ==
    (StatsAnswered /\ req.chartFail) =>
        LET ok == StatsResponse(tasks, FALSE, now)
        IN  /\ resp.status = ok.status
            /\ resp.status = 200
            /\ resp.total_tasks = ok.total_tasks
            /\ resp.completed_tasks = ok.completed_tasks
            /\ resp.pending_tasks = ok.pending_tasks
            /\ resp.in_progress_tasks = ok.in_progress_tasks
            /\ resp.completion_rate = ok.completion_rate
            /\ resp.priority_distribution = ok.priority_distribution
            /\ resp.recent_tasks = ok.recent_tasks
            /\ resp.chart_image = Null

C10_Witness ==
    /\ StatsAnswered
    /\ req.chartFail
    /\ resp.total_tasks = RecentLimit + 1
    /\ Len(resp.recent_tasks) = RecentLimit
    /\ resp.chart_image = Null
    /\ StatsResponse(tasks, FALSE, now).chart_image # Null

(***************************************************************************)
(* Properties of the dashboard.                                            *)
(***************************************************************************)

\* C11: the dashboard never returns an unhandled error.  Whenever a query
\* or the rendering of the template fails, the response is HTTP 200 with the
\* static page, which lists the API endpoints and carries the text of the
\* error as raised; without a failure it is the rendered template over the
\* counts of the table; and the request never modifies the Task table.
C11_DashboardDegrades ==
    [][ req'.op = "dashboard" =>
          /\ tasks' = tasks
          /\ nextId' = nextId
          /\ resp'.status = 200
          /\ req'.failure # "none" =>
               /\ resp'.page = "static"
               /\ resp'.error_text = req'.failure
               /\ resp'.endpoints = Endpoints
               /\ Cardinality(resp'.endpoints) = 5
          /\ req'.failure = "none" =>
               /\ resp'.page = "dashboard.html"
               /\ resp'.task_count = Cardinality(DOMAIN tasks)
               /\ Len(resp'.recent_tasks) =
                    Min(RecentLimit, Cardinality(DOMAIN tasks)) ]_vars

C11_Witness ==
    /\ req.op = "dashboard"
    /\ req.failure = "DatabaseError"
    /\ Cardinality(DOMAIN tasks) = RecentLimit + 1
    /\ resp.status = 200
    /\ resp.page = "static"
    /\ resp.error_text = "DatabaseError"


\* A weather request that has its upstream answer and now finishes.
LookupFinishes(c) == lookups[c].pc = "called" /\ lookups'[c].pc = "done"

\* An update that has loaded its row and now saves.
EditSaves(c) == edits[c].pc = "loaded" /\ edits'[c].pc = "done"

\* Two weather requests that were both open before either stored its row
\* have both answered "stored" for the same city.
DuplicateLookups ==
    /\ \A c \in Clients :
        /\ lookups[c].pc = "done"
        /\ lookups[c].seen = 0
        /\ lookups[c].resp.status = 200
        /\ lookups[c].resp.debug_info.stored_in_db
    /\ Len(logs) = 2
    /\ logs[1].city = logs[2].city
    /\ logs[1].temperature = logs[2].temperature

\* Two updates of one task loaded the same row; both answered 200; the
\* stored row has the priority one of them set and the status neither set.
LostUpdate ==
    /\ \A c \in Clients : edits[c].pc = "done" /\ edits[c].resp.status = 200
    /\ edits[1].id = edits[2].id
    /\ edits[1].instance = edits[2].instance
    /\ edits[1].data.status = "completed"
    /\ edits[1].instance.status = "pending"
    /\ edits[1].resp.task.status = "completed"
    /\ edits[2].data.status = Absent
    /\ edits[2].data.priority = "high"
    /\ edits[1].id \in DOMAIN tasks
    /\ tasks[edits[1].id].status = "pending"
    /\ tasks[edits[1].id].priority = "high"

\* C12: requests are not coordinated.  A weather request that finishes with
\* a stored observation has appended one row of its own, whatever rows the
\* table already holds, so concurrent requests for one city store duplicate
\* rows.  An update writes the row it loaded with its own fields set onto
\* the table and answers 200, whatever the row has become since it was
\* loaded, so of two concurrent updates of one task the later write wins
\* and the earlier change is lost.
C12_NoCoordination ==
    [][ \A c \in Clients :
          /\ ( /\ LookupFinishes(c)
               /\ lookups'[c].resp.status = 200
               /\ lookups'[c].resp.debug_info.stored_in_db )
             => /\ Len(logs') = Len(logs) + 1
                /\ SubSeq(logs', 1, Len(logs)) = logs
                /\ logs'[Len(logs')].city = lookups'[c].resp.city
          /\ EditSaves(c)
             => /\ edits'[c].resp.status = 200
                /\ edits[c].id \in DOMAIN tasks'
                /\ tasks'[edits[c].id] =
                     UpdatedTask(edits[c].instance, edits[c].data)
                /\ \A j \in DOMAIN tasks' \ {edits[c].id} :
                     j \in DOMAIN tasks /\ tasks'[j] = tasks[j]
    ]_vars

C12_Witness == DuplicateLookups /\ LostUpdate


\* A request that names the id of a stored task.
OnStoredTask == req'.op \in {"retrieve", "update", "destroy"} /\ req'.id \in DOMAIN tasks

\* C13: the status and priority parameters apply to the operations on one
\* task as they do to the list.  A retrieve, PUT, PATCH or DELETE of a stored
\* task with a non-empty parameter that differs from the task's stored value
\* is answered 404 and changes nothing.  With parameters that match, or are
\* missing or empty, a retrieve answers 200 with the task, a delete answers
\* 204 and removes the row, and an update with a valid body answers 200 and
\* stores the change.
C13_FiltersApplyToDetail ==
    [][ OnStoredTask =>
          LET i == req'.id
              row == tasks[i]
          IN  /\ ~Matches(row, req'.query) =>
                   /\ resp' = NotFound
                   /\ tasks' = tasks
                   /\ deleted' = deleted
              /\ Matches(row, req'.query) =>
                   /\ req'.op = "retrieve" =>
                        /\ resp'.status = 200
                        /\ resp'.task.id = i
                        /\ tasks' = tasks
                   /\ req'.op = "destroy" =>
                        /\ resp'.status = 204
                        /\ i \notin DOMAIN tasks'
                   /\ ( /\ req'.op = "update"
                        /\ Validate(req'.data, req'.partial) = {} ) =>
                        /\ resp'.status = 200
                        /\ tasks'[i] = UpdatedTask(row, req'.data)
    ]_vars

C13_Witness ==
    /\ req.op = "destroy"
    /\ req.query.status = "completed"
    /\ req.id \in DOMAIN tasks
    /\ tasks[req.id].status = "pending"
    /\ resp.status = 404

====
